---- MODULE Spec2Model ----
(***************************************************************************)
(* State-machine model of listprojects (src/src/main.rs): the cache, the   *)
(* item channel, the background walker thread, the selector and the tmux   *)
(* session activation.  Paths and session names are sequences of           *)
(* one-character strings so that compute_session_name is computed as the   *)
(* code computes it.                                                       *)
(***************************************************************************)
EXTENDS Naturals, Integers, Sequences, FiniteSets, TLC

\* ------------------------------------------------------------------ bounds
MaxRoots == 2        \* longest configured root_dirs list
MaxFileRecs == 2     \* most records in the cache file found at start
MaxPathLen == 3      \* longest path string given to compute_session_name alone

\* ------------------------------------------------------------ file system
\* The directories below the configured roots.  /a/b and /a/b/c contain a
\* .git subdirectory (a project nested in a project); /a does not.  None is
\* hidden or ignored, so the walk yields every one of them, each root first.
pA == <<"/", "a">>
pAB == <<"/", "a", "/", "b">>
pABC == <<"/", "a", "/", "b", "/", "c">>

Dirs == {pA, pAB, pABC}
HasGit == {pAB, pABC}
RootPool == {pA, pAB}

\* e.path().join(".git").is_dir()
HasMarker(d) == d \in HasGit

\* the entries of directory d that the walk descends into
Children(d) ==
    {e \in Dirs : /\ Len(e) = Len(d) + 2
                  /\ SubSeq(e, 1, Len(d)) = d
                  /\ e[Len(d) + 1] = "/"}

\* all orders in which the elements of a finite set can be iterated
Perms(S) ==
    {s \in [1..Cardinality(S) -> S] : \A i, j \in 1..Cardinality(S) : s[i] = s[j] => i = j}

\* ------------------------------------------------------------ pure helpers
\* str::strip_prefix: the rest of s when s starts with pre, otherwise None
StartsWith(s, pre) == Len(pre) <= Len(s) /\ SubSeq(s, 1, Len(pre)) = pre

\* mutant: nothing is ever stripped
StripPrefixOr_Never(s, pre) == s

StripPrefixOr(s, pre) ==
    IF StartsWith(s, pre) THEN SubSeq(s, Len(pre) + 1, Len(s)) ELSE s

\* mutant: the slash that follows the root is kept
compute_session_name_KeepSlash(full_path_str, dir_path_str) ==
    StripPrefixOr(full_path_str, dir_path_str)

compute_session_name(full_path_str, dir_path_str) ==
    LET dir_removed == StripPrefixOr(full_path_str, dir_path_str)
        leading_slash_removed == StripPrefixOr(dir_removed, <<"/">>)
    IN  leading_slash_removed

ProjectPath(p, n) == [full_path |-> p, session_name |-> n]

\* every record a walk of some root of the pool can build
Universe == {ProjectPath(p, compute_session_name(p, r)) : p \in HasGit, r \in RootPool}

\* ------------------------------------------------------------- cache file
\* serde_json::to_writer of CacheInner: one object holding the array of the
\* set's records, fields renamed to PascalCase, in HashSet iteration order.
\* mutant: only the path is written, the derived name is lost
SerRecord_PathOnly(r) == [FullPath |-> r.full_path, SessionName |-> <<>>]

SerRecord(r) == [FullPath |-> r.full_path, SessionName |-> r.session_name]

DeRecord(j) == ProjectPath(j.FullPath, j.SessionName)

Serialize(S) ==
    {[kind |-> "store", paths |-> [i \in 1..Cardinality(S) |-> SerRecord(s[i])]] : s \in Perms(S)}

\* serde_json::from_str::<CacheInner>: fails on anything but a store
Parses(f) == f.kind = "store"

Deserialize(f) == {DeRecord(f.paths[i]) : i \in 1..Len(f.paths)}

\* mutant: unparseable content is taken for an empty store
FromStr_OrDefault(f) == [ok |-> TRUE, paths |-> IF Parses(f) THEN Deserialize(f) ELSE {}]

\* the Result of serde_json::from_str(&txt)
FromStr(f) ==
    IF Parses(f) THEN [ok |-> TRUE, paths |-> Deserialize(f)] ELSE [ok |-> FALSE, paths |-> {}]

NoFile == [kind |-> "missing"]
Unreadable == [kind |-> "unreadable"]
Text(t) == [kind |-> "text", txt |-> t]
Truncated == Text("")

\* one serialization of S, used to enumerate the files found at start
AFile(S) == CHOOSE f \in Serialize(S) : TRUE

InitialFiles ==
    {NoFile, Unreadable, Text("contents"), Truncated}
      \cup {AFile(S) : S \in {T \in SUBSET Universe : Cardinality(T) <= MaxFileRecs}}

\* Config.root_dirs: a non-empty list of roots
Configs == UNION {[1..n -> RootPool] : n \in 1..MaxRoots}

\* ------------------------------------------------------------------ state
VARIABLES
    cfg,        \* Config.root_dirs, the configured roots in order
    clear,      \* Args.clear
    file,       \* content of the cache file on disk
    file0,      \* content of the cache file when the process started
    pc,         \* position of the main thread
    exitStatus, \* "none" while running, then "ok", "err" or "panic"
    cache,      \* CacheInner.paths
    seeds,      \* project_paths, the snapshot taken by initial_paths
    chan,       \* items queued in the channel and not yet received
    rxAlive,    \* the receiving end of the channel still exists
    shown,      \* items the selector has received
    sent,       \* every send so far: record, origin and whether it was delivered
    addLog,     \* every Cache::add call so far: record and returned CacheState
    wpc,        \* position of the background thread
    rootIdx,    \* index in cfg of the root being walked
    todo,       \* directories the walk of the current root still has to yield
    visited,    \* every (root index, directory) the walker has yielded
    pending,    \* the record the walker is about to send
    result,     \* what the selector returned: "pending", "abort", "none", "item", "empty"
    selected,   \* the record the user chose
    inside,     \* what is_running returned
    hasOut,     \* outcome of the has-session query
    tmuxLog,    \* the tmux operations invoked, in order
    warned,     \* number of "saving cache" warnings logged
    saved       \* the set Cache::write last serialized in full

vars == <<cfg, clear, file, file0, pc, exitStatus, cache, seeds, chan, rxAlive, shown,
          sent, addLog, wpc, rootIdx, todo, visited, pending, result, selected, inside, hasOut,
          tmuxLog, warned, saved>>

mainVars == <<pc, exitStatus>>
chanVars == <<chan, rxAlive, shown, sent>>
walkVars == <<wpc, rootIdx, todo, visited, pending, addLog>>
tmuxVars == <<result, selected, inside, hasOut, tmuxLog>>
argVars == <<cfg, clear, file0>>
constVars == <<argVars, saved>>

None == [full_path |-> <<>>, session_name |-> <<"-">>]

Init ==
    /\ cfg \in Configs
    /\ clear \in BOOLEAN
    /\ file \in InitialFiles
    /\ file0 = file
    /\ pc = "open"
    /\ exitStatus = "none"
    /\ cache = {}
    /\ seeds = <<>>
    /\ chan = <<>>
    /\ rxAlive = FALSE
    /\ shown = <<>>
    /\ sent = <<>>
    /\ addLog = <<>>
    /\ wpc = "unspawned"
    /\ rootIdx = 0
    /\ todo = <<>>
    /\ visited = <<>>
    /\ pending = None
    /\ result = "pending"
    /\ selected = None
    /\ inside = FALSE
    /\ hasOut = "none"
    /\ tmuxLog = <<>>
    /\ warned = 0
    /\ saved = {}

\* the main function returns (or panics): the process ends and the detached
\* background thread ends with it
Exit(status) ==
    /\ pc' = "exited"
    /\ exitStatus' = status

\* --------------------------------------------------------------- Cache::new
\* mutant: the store is never persisted
WriteResult_Nothing(io, S, old) == {old}

\* Cache::write as called from Cache::new: File::create, then to_writer.
\* io is what the file system does: "ok", "create_fails" or "write_fails".
WriteResult(io, S, old) ==
    CASE io = "ok" -> Serialize(S)
      [] io = "create_fails" -> {old}
      [] io = "write_fails" -> {Truncated}

IoOutcomes == {"ok", "create_fails", "write_fails"}

CacheNew ==
    /\ pc = "open"
    /\ CASE file.kind \in {"store", "text"} ->
              IF FromStr(file).ok
                THEN /\ cache' = IF clear THEN {} ELSE FromStr(file).paths
                     /\ pc' = "seed"
                     /\ UNCHANGED <<file, exitStatus, saved>>
                ELSE /\ Exit("err")
                     /\ UNCHANGED <<file, cache, saved>>
         [] file.kind = "missing" ->
              \E io \in IoOutcomes :
                /\ file' \in WriteResult(io, {}, file)
                /\ cache' = {}
                /\ IF io = "ok"
                     THEN pc' = "seed" /\ saved' = {} /\ UNCHANGED exitStatus
                     ELSE Exit("err") /\ UNCHANGED saved
         [] file.kind = "unreadable" ->
              /\ Exit("err")
              /\ UNCHANGED <<file, cache, saved>>
    /\ UNCHANGED <<argVars, seeds, chanVars, walkVars, tmuxVars, warned>>

\* ----------------------------------------------------- channel and seeding
\* mutant: the channel holds one item and a send waits while it is full
Send_Bounded(item, origin) ==
    /\ Len(chan) < 1
    /\ chan' = IF rxAlive THEN Append(chan, item) ELSE chan
    /\ sent' = Append(sent, [rec |-> item, origin |-> origin, ok |-> rxAlive])

\* mutant: a sent item goes to the front of the queue
Send_Front(item, origin) ==
    /\ chan' = IF rxAlive THEN <<item>> \o chan ELSE chan
    /\ sent' = Append(sent, [rec |-> item, origin |-> origin, ok |-> rxAlive])

\* Sender::send on the unbounded channel: queues the item when a receiver
\* exists, fails otherwise; never waits.  The caller discards the result.
Send(item, origin) ==
    /\ chan' = IF rxAlive THEN Append(chan, item) ELSE chan
    /\ sent' = Append(sent, [rec |-> item, origin |-> origin, ok |-> rxAlive])

initial_paths == Perms(cache)

\* main: create the channel, take the snapshot, send every record of it
Seed ==
    /\ pc = "seed"
    /\ \E snap \in initial_paths :
         /\ seeds' = snap
         /\ chan' = snap
         /\ sent' = [i \in 1..Len(snap) |-> [rec |-> snap[i], origin |-> "seed", ok |-> TRUE]]
    /\ rxAlive' = TRUE
    /\ pc' = "spawn"
    /\ UNCHANGED <<constVars, file, exitStatus, cache, shown, walkVars, tmuxVars, warned>>

\* ------------------------------------------------------- background thread
Running == pc # "exited"

\* std::thread::spawn: the closure takes cfg, cache and tx and starts the
\* loop over the roots
Spawn ==
    /\ pc = "spawn"
    /\ pc' = "select"
    /\ wpc' = "walk"
    /\ rootIdx' = 0
    /\ todo' = <<>>
    /\ UNCHANGED <<constVars, file, exitStatus, cache, seeds, chanVars, visited, pending,
                   addLog, tmuxVars, warned>>

\* for dir in cfg.root_dirs: the walker of the current root is exhausted (or
\* the loop begins); the next root's walker is built, or the loop ends and
\* the closure returns, dropping the cache
WalkNextRoot ==
    /\ Running
    /\ wpc = "walk"
    /\ todo = <<>>
    /\ IF rootIdx < Len(cfg)
         THEN /\ rootIdx' = rootIdx + 1
              /\ todo' = <<cfg[rootIdx + 1]>>
              /\ UNCHANGED wpc
         ELSE /\ wpc' = "drop"
              /\ UNCHANGED <<rootIdx, todo>>
    /\ UNCHANGED <<constVars, file, mainVars, cache, seeds, chanVars, visited, pending,
                   addLog, tmuxVars, warned>>

Missing == "Missing"
Found == "Found"

\* mutant: add reports every record as newly inserted
CacheAddState_AlwaysMissing(paths, value) == Missing

\* Cache::add: HashSet::insert of the record, compared on both of its fields
CacheAddState(paths, value) == IF value \in paths THEN Found ELSE Missing

CacheAddPaths(paths, value) == paths \cup {value}

\* one iteration of the walk: the walker yields its next directory, the
\* filters keep it when it holds .git, the record is built and added
WalkEntry ==
    /\ Running
    /\ wpc = "walk"
    /\ todo # <<>>
    /\ LET d == Head(todo)
           dir_path_str == cfg[rootIdx]
           project_path == ProjectPath(d, compute_session_name(d, dir_path_str))
       IN  /\ \E sub \in Perms(Children(d)) : todo' = sub \o Tail(todo)
           /\ visited' = Append(visited, <<rootIdx, d>>)
           /\ IF HasMarker(d)
                THEN /\ cache' = CacheAddPaths(cache, project_path)
                     /\ addLog' = Append(addLog, [rec |-> project_path,
                                                  state |-> CacheAddState(cache, project_path)])
                     /\ IF CacheAddState(cache, project_path) = Missing
                          THEN pending' = project_path /\ wpc' = "send"
                          ELSE UNCHANGED <<pending, wpc>>
                ELSE UNCHANGED <<cache, addLog, pending, wpc>>
    /\ UNCHANGED <<constVars, file, mainVars, seeds, chanVars, rootIdx, tmuxVars, warned>>

\* let _ = tx.send(Arc::new(project_path))
WalkSend ==
    /\ Running
    /\ wpc = "send"
    /\ Send(pending, "live")
    /\ pending' = None
    /\ wpc' = "walk"
    /\ UNCHANGED <<constVars, file, mainVars, cache, seeds, rxAlive, shown, rootIdx, todo,
                   visited, addLog, tmuxVars, warned>>

\* impl Drop for Cache, first half of Cache::write: File::create truncates
\* the file; a failure is logged as a warning
DropCreate ==
    /\ Running
    /\ wpc = "drop"
    /\ \E ok \in BOOLEAN :
         IF ok
           THEN file' = Truncated /\ wpc' = "drop_write" /\ UNCHANGED warned
           ELSE wpc' = "done" /\ warned' = warned + 1 /\ UNCHANGED file
    /\ UNCHANGED <<constVars, mainVars, cache, seeds, chanVars, rootIdx, todo, visited,
                   pending, addLog, tmuxVars>>

\* second half of Cache::write: serde_json::to_writer of the whole set
DropWrite ==
    /\ Running
    /\ wpc = "drop_write"
    /\ \E ok \in BOOLEAN :
         IF ok
           THEN file' \in Serialize(cache) /\ saved' = cache /\ UNCHANGED warned
           ELSE warned' = warned + 1 /\ UNCHANGED <<file, saved>>
    /\ wpc' = "done"
    /\ UNCHANGED <<argVars, mainVars, cache, seeds, chanVars, rootIdx, todo, visited,
                   pending, addLog, tmuxVars>>

\* ----------------------------------------------------------------- selector
\* the selector takes the next item off the channel and shows it
Recv ==
    /\ pc = "select"
    /\ chan # <<>>
    /\ shown' = Append(shown, Head(chan))
    /\ chan' = Tail(chan)
    /\ UNCHANGED <<constVars, file, mainVars, cache, seeds, rxAlive, sent, walkVars,
                   tmuxVars, warned>>

\* mutant: an abort falls through to the activation of the selected item
SelectAbort_Activates ==
    /\ pc = "select"
    /\ result' = "abort"
    /\ rxAlive' = FALSE
    /\ pc' = "activate"
    /\ UNCHANGED <<constVars, file, exitStatus, cache, seeds, chan, shown, sent, walkVars,
                   selected, inside, hasOut, tmuxLog, warned>>

\* run_with takes the receiver by value: once it has returned, in any of the
\* four ways below, no receiver is left.
\* run_with returns a result with is_abort set: main returns Ok
SelectAbort ==
    /\ pc = "select"
    /\ result' = "abort"
    /\ rxAlive' = FALSE
    /\ Exit("ok")
    /\ UNCHANGED <<constVars, file, cache, seeds, chan, shown, sent, walkVars, selected, inside,
                   hasOut, tmuxLog, warned>>

\* run_with returns None: main returns Ok
SelectNone ==
    /\ pc = "select"
    /\ result' = "none"
    /\ rxAlive' = FALSE
    /\ Exit("ok")
    /\ UNCHANGED <<constVars, file, cache, seeds, chan, shown, sent, walkVars, selected, inside,
                   hasOut, tmuxLog, warned>>

\* run_with returns an accepted result whose first selected item is one of
\* the shown items; Tmux::new borrows it
SelectItem ==
    /\ pc = "select"
    /\ \E i \in 1..Len(shown) : selected' = shown[i]
    /\ result' = "item"
    /\ rxAlive' = FALSE
    /\ pc' = "activate"
    /\ UNCHANGED <<constVars, file, exitStatus, cache, seeds, chan, shown, sent, walkVars,
                   inside, hasOut, tmuxLog, warned>>

\* run_with returns an accepted result with no selected item:
\* result.selected_items[0] panics
SelectNothing ==
    /\ pc = "select"
    /\ result' = "empty"
    /\ rxAlive' = FALSE
    /\ Exit("panic")
    /\ UNCHANGED <<constVars, file, cache, seeds, chan, shown, sent, walkVars, selected, inside,
                   hasOut, tmuxLog, warned>>

\* -------------------------------------------------------------------- tmux
Call(op) == [op |-> op, name |-> selected.session_name, dir |-> selected.full_path]

\* where Tmux::create goes once session_exists has returned Ok(exists)
AfterExists(in, exists) ==
    IF in
      THEN IF ~exists THEN "create_session" ELSE "switch_client"
      ELSE IF exists THEN "join" ELSE "create_session"

\* mutant: the session just created is always attached to
AfterCreate_AlwaysJoin(in) == "join"

\* where Tmux::create goes once create_session has returned Ok
AfterCreate(in) == IF in THEN "switch_client" ELSE "join"

\* Tmux::is_running: is the TMUX environment variable set
TmuxIsRunning ==
    /\ pc = "is_running"
    /\ inside' \in BOOLEAN
    /\ tmuxLog' = Append(tmuxLog, Call("is_running"))
    /\ pc' = "session_exists"
    /\ UNCHANGED <<constVars, file, exitStatus, cache, seeds, chanVars, walkVars, result,
                   selected, hasOut, warned>>

\* what running "tmux has-session" can give: exit status 0, a non-zero
\* exit because there is no such session, a non-zero exit for any other
\* reason, or no exit status at all because the command could not be run
HasOutcomes == {"success", "not_found", "other_failure", "spawn_error"}

\* Tmux::session_exists: Ok(res.status().success()), Err when not run
TmuxSessionExists ==
    /\ pc = "session_exists"
    /\ \E out \in HasOutcomes :
         /\ hasOut' = out
         /\ IF out = "spawn_error"
              THEN Exit("err")
              ELSE pc' = AfterExists(inside, out = "success") /\ UNCHANGED exitStatus
    /\ tmuxLog' = Append(tmuxLog, Call("has_session"))
    /\ UNCHANGED <<constVars, file, cache, seeds, chanVars, walkVars, result, selected,
                   inside, warned>>

\* Tmux::create_session: new-session -d -c full_path -s session_name
TmuxCreateSession ==
    /\ pc = "create_session"
    /\ \E ran \in BOOLEAN :
         IF ran THEN pc' = AfterCreate(inside) /\ UNCHANGED exitStatus ELSE Exit("err")
    /\ tmuxLog' = Append(tmuxLog, Call("new_session"))
    /\ UNCHANGED <<constVars, file, cache, seeds, chanVars, walkVars, result, selected,
                   inside, hasOut, warned>>

\* Tmux::switch_client, then create returns and main returns
TmuxSwitchClient ==
    /\ pc = "switch_client"
    /\ \E ran \in BOOLEAN : Exit(IF ran THEN "ok" ELSE "err")
    /\ tmuxLog' = Append(tmuxLog, Call("switch_client"))
    /\ UNCHANGED <<constVars, file, cache, seeds, chanVars, walkVars, result, selected,
                   inside, hasOut, warned>>

\* Tmux::join (attach-session), then create returns and main returns
TmuxJoin ==
    /\ pc = "join"
    /\ \E ran \in BOOLEAN : Exit(IF ran THEN "ok" ELSE "err")
    /\ tmuxLog' = Append(tmuxLog, Call("attach_session"))
    /\ UNCHANGED <<constVars, file, cache, seeds, chanVars, walkVars, result, selected,
                   inside, hasOut, warned>>

\* session.create() as the main flow sees it: Tmux::new(item).create()
\* runs to its end and returns Ok or Err, and main returns the same
CreateResults == {"ok", "err"}

Activate ==
    /\ pc = "activate"
    /\ tmuxLog' = Append(tmuxLog, Call("create"))
    /\ \E r \in CreateResults : Exit(r)
    /\ UNCHANGED <<constVars, file, cache, seeds, chanVars, walkVars, result, selected,
                   inside, hasOut, warned>>

\* ------------------------------------------------------------ specification
\* the whole run of the program
Next ==
    \/ CacheNew
    \/ Seed
    \/ Spawn
    \/ WalkNextRoot
    \/ WalkEntry
    \/ WalkSend
    \/ DropCreate
    \/ DropWrite
    \/ Recv
    \/ SelectAbort
    \/ SelectNone
    \/ SelectItem
    \/ SelectNothing
    \/ Activate

Spec == Init /\ [][Next]_vars

\* Tmux::create taken alone, step by step, for every item it can be built on
TmuxInit ==
    /\ cfg \in Configs
    /\ clear = FALSE
    /\ file = NoFile
    /\ file0 = file
    /\ pc = "is_running"
    /\ exitStatus = "none"
    /\ cache = {}
    /\ seeds = <<>>
    /\ chan = <<>>
    /\ rxAlive = FALSE
    /\ shown = <<>>
    /\ sent = <<>>
    /\ addLog = <<>>
    /\ wpc = "unspawned"
    /\ rootIdx = 0
    /\ todo = <<>>
    /\ visited = <<>>
    /\ pending = None
    /\ result = "item"
    /\ selected \in {ProjectPath(p, compute_session_name(p, cfg[i])) :
                       p \in HasGit, i \in 1..Len(cfg)}
    /\ inside = FALSE
    /\ hasOut = "none"
    /\ tmuxLog = <<>>
    /\ warned = 0
    /\ saved = {}

TmuxNext ==
    \/ TmuxIsRunning
    \/ TmuxSessionExists
    \/ TmuxCreateSession
    \/ TmuxSwitchClient
    \/ TmuxJoin

TmuxSpec == TmuxInit /\ [][TmuxNext]_vars

\* Cache::write followed by Cache::new, for every set of records and every
\* previous content of the file
RTInit ==
    /\ cfg = <<pA>>
    /\ clear = FALSE
    /\ file \in InitialFiles
    /\ file0 = file
    /\ pc = "write"
    /\ exitStatus = "none"
    /\ cache \in SUBSET Universe
    /\ seeds = <<>>
    /\ chan = <<>>
    /\ rxAlive = FALSE
    /\ shown = <<>>
    /\ sent = <<>>
    /\ addLog = <<>>
    /\ wpc = "unspawned"
    /\ rootIdx = 0
    /\ todo = <<>>
    /\ visited = <<>>
    /\ pending = None
    /\ result = "pending"
    /\ selected = None
    /\ inside = FALSE
    /\ hasOut = "none"
    /\ tmuxLog = <<>>
    /\ warned = 0
    /\ saved = {}

\* Cache::write in full; the cache object is gone afterwards
RTWrite ==
    /\ pc = "write"
    /\ \E io \in IoOutcomes :
         /\ file' \in WriteResult(io, cache, file)
         /\ IF io = "ok"
              THEN saved' = cache /\ pc' = "open" /\ UNCHANGED exitStatus
              ELSE Exit("err") /\ UNCHANGED saved
    /\ cache' = {}
    /\ UNCHANGED <<argVars, seeds, chanVars, walkVars, tmuxVars, warned>>

RTNext ==
    \/ RTWrite
    \/ CacheNew

SpecRT == RTInit /\ [][RTNext]_vars

\* compute_session_name taken alone, on every pair of short strings and on
\* the paths of the unit test and of the documented example
PathChars == {"/", "a", "b"}

Strings == UNION {[1..k -> PathChars] : k \in 0..MaxPathLen}

exRootWork == <<"/", "U", "s", "e", "r", "s", "/", "u", "s", "e", "r", "/", "w", "o", "r", "k">>
exWorkProject == <<"/", "U", "s", "e", "r", "s", "/", "u", "s", "e", "r", "/", "w", "o", "r", "k", "/", "p", "r", "o", "j", "e", "c", "t", "/", "a", "/", "b", "/", "c">>
exProjectABC == <<"p", "r", "o", "j", "e", "c", "t", "/", "a", "/", "b", "/", "c">>
exRootDev == <<"/", "U", "s", "e", "r", "s", "/", "s", "i", "m", "o", "n", "/", "d", "e", "v">>
exDevFoo == <<"/", "U", "s", "e", "r", "s", "/", "s", "i", "m", "o", "n", "/", "d", "e", "v", "/", "f", "o", "o">>
exFoo == <<"f", "o", "o">>
exDevSlashFoo == <<"d", "e", "v", "/", "f", "o", "o">>

NameInputs == Strings \cup {exRootWork, exWorkProject, exRootDev, exDevFoo}

NameInit ==
    /\ cfg \in {<<d>> : d \in NameInputs}
    /\ clear = FALSE
    /\ file = NoFile
    /\ file0 = file
    /\ pc = "name"
    /\ exitStatus = "none"
    /\ cache = {}
    /\ seeds = <<>>
    /\ chan = <<>>
    /\ rxAlive = FALSE
    /\ shown = <<>>
    /\ sent = <<>>
    /\ addLog = <<>>
    /\ wpc = "unspawned"
    /\ rootIdx = 1
    /\ todo \in {<<f>> : f \in NameInputs}
    /\ visited = <<>>
    /\ pending = None
    /\ result = "pending"
    /\ selected = None
    /\ inside = FALSE
    /\ hasOut = "none"
    /\ tmuxLog = <<>>
    /\ warned = 0
    /\ saved = {}

\* the record the walker loop builds from a path and its root
NameCompute ==
    /\ pc = "name"
    /\ pending' = ProjectPath(Head(todo), compute_session_name(Head(todo), cfg[rootIdx]))
    /\ pc' = "named"
    /\ UNCHANGED <<constVars, file, exitStatus, cache, seeds, chanVars, wpc, rootIdx, todo,
                   visited, addLog, tmuxVars, warned>>

NameNext ==
    \/ NameCompute

SpecName == NameInit /\ [][NameNext]_vars

\* ------------------------------------------------------------------ helpers
Range(q) == {q[i] : i \in 1..Len(q)}

\* the directories the walk of a root can reach: the root and what is below it
Below(root) ==
    {d \in Dirs : StartsWith(d, root) /\ (Len(d) = Len(root) \/ d[Len(root) + 1] = "/")}

\* the records discovery builds when it walks every configured root
WalkRecords ==
    UNION {{ProjectPath(p, compute_session_name(p, cfg[i])) : p \in HasGit \cap Below(cfg[i])} :
             i \in 1..Len(cfg)}

\* the in-memory cache that Cache::new hands to main, read off the file
CacheAtLoad == IF file0.kind = "store" /\ ~clear THEN Deserialize(file0) ELSE {}

Opened == pc \notin {"open"} /\ ~(pc = "exited" /\ rxAlive = FALSE /\ result = "pending")
Seeded == Opened /\ pc # "seed"

SeedSends == {i \in 1..Len(sent) : sent[i].origin = "seed"}
LiveSends == {i \in 1..Len(sent) : sent[i].origin = "live"}
MissingAdds == {i \in 1..Len(addLog) : addLog[i].state = Missing}

RECURSIVE LiveRecs(_)
LiveRecs(n) ==
    IF n = 0 THEN <<>>
    ELSE IF sent[n].origin = "live" THEN Append(LiveRecs(n - 1), sent[n].rec)
    ELSE LiveRecs(n - 1)

RECURSIVE MissingRecs(_)
MissingRecs(n) ==
    IF n = 0 THEN <<>>
    ELSE IF addLog[n].state = Missing THEN Append(MissingRecs(n - 1), addLog[n].rec)
    ELSE MissingRecs(n - 1)

WalkFinished == wpc \in {"drop", "drop_write", "done"}

\* ------------------------------------------------------------------- claims
\* C1: no record is put on the channel twice in one run; once seeding is
\* done every record of the loaded cache has been sent exactly once as a
\* seed; the records discovery sends are, in order, exactly the records for
\* which Cache::add returned Missing (the last one possibly still about to
\* be sent); and when the loaded cache holds every record the walk builds,
\* discovery sends nothing.
C1_NoDuplicateDelivery ==
    /\ \A i, j \in 1..Len(sent) : sent[i].rec = sent[j].rec => i = j
    /\ Seeded =>
         /\ {sent[i].rec : i \in SeedSends} = CacheAtLoad
         /\ Cardinality(SeedSends) = Cardinality(CacheAtLoad)
    /\ MissingRecs(Len(addLog))
         = LiveRecs(Len(sent)) \o (IF wpc = "send" THEN <<pending>> ELSE <<>>)
    /\ WalkRecords \subseteq CacheAtLoad => LiveSends = {}

\* C1 witness: the walk has finished over a loaded cache that already held
\* every record; each add found its record and only the seeds were sent.
C1_Witness ==
    /\ WalkFinished
    /\ WalkRecords \subseteq CacheAtLoad
    /\ Len(addLog) >= 2
    /\ Len(sent) = 2
    /\ LiveSends = {}

\* C2: over the run at most one Cache::add call per path returns Missing,
\* whichever root's walk makes it, and none does when the path was loaded
\* from disk, whatever name it was loaded with.
C2_PathIdentity ==
    /\ \A i, j \in MissingAdds : addLog[i].rec.full_path = addLog[j].rec.full_path => i = j
    /\ \A i \in MissingAdds : \A r \in CacheAtLoad : r.full_path # addLog[i].rec.full_path

\* C3: when the process has exited normally, every record discovery added
\* to the in-memory cache is in the cache file on disk.
C3_SavedAtExit ==
    (pc = "exited" /\ exitStatus = "ok") =>
        /\ Parses(file)
        /\ \A i \in MissingAdds : addLog[i].rec \in Deserialize(file)

\* the tmux operations invoked so far, by name
RECURSIVE Ops(_)
Ops(n) == IF n = 0 THEN <<>> ELSE Append(Ops(n - 1), tmuxLog[n].op)

\* the action sequence the transition table gives
Table(in, exists) ==
    <<"is_running", "has_session">>
      \o (IF exists THEN <<>> ELSE <<"new_session">>)
      \o (IF in THEN <<"switch_client">> ELSE <<"attach_session">>)

IsPrefix(q, r) == Len(q) <= Len(r) /\ SubSeq(r, 1, Len(q)) = q

\* C4: Tmux::create invokes a prefix of the table's action sequence for what
\* is_running and the existence query returned, and the whole sequence when
\* it returns Ok; every operation targets the record's session name and the
\* session is created at the record's path; a session is created only when
\* the existence query returned false.
C4_TransitionTable ==
    LET ops == Ops(Len(tmuxLog))
        exists == hasOut = "success"
    IN  /\ IF hasOut = "none"
             THEN IsPrefix(ops, <<"is_running", "has_session">>)
             ELSE IsPrefix(ops, Table(inside, exists))
        /\ (pc = "exited" /\ exitStatus = "ok") => ops = Table(inside, exists)
        /\ \A i \in 1..Len(tmuxLog) :
             /\ tmuxLog[i].name = selected.session_name
             /\ tmuxLog[i].dir = selected.full_path
             /\ tmuxLog[i].op = "new_session" => (hasOut # "none" /\ ~exists)
        /\ ~({"switch_client", "attach_session"} \subseteq Range(ops))

\* C4 witness: inside a client with the session missing, create has returned
\* Ok after creating the session and switching to it.
C4_Witness ==
    /\ pc = "exited"
    /\ exitStatus = "ok"
    /\ inside
    /\ hasOut = "not_found"
    /\ Ops(Len(tmuxLog)) = <<"is_running", "has_session", "new_session", "switch_client">>

\* C5: after an abort or an empty result no session activation is invoked
\* and the process has ended with success; activation is invoked only for a
\* result that carries an item, and that item is one the selector was shown.
C5_AbortNoActivation ==
    /\ result \in {"abort", "none"} => (tmuxLog = <<>> /\ pc = "exited" /\ exitStatus = "ok")
    /\ (pc = "activate" \/ tmuxLog # <<>>) =>
         (result = "item" /\ selected \in Range(shown))

\* C5 witness: the user aborted while an item was on display and the
\* process has ended.
C5_Witness ==
    /\ result = "abort"
    /\ pc = "exited"
    /\ shown # <<>>

WalkerStep == WalkNextRoot \/ WalkEntry \/ WalkSend

FailedSends == {i \in 1..Len(sent) : ~sent[i].ok}

\* the walk has yielded every project directory below every configured root
\* and its record is in the cache
AllRootsWalked ==
    /\ \A i \in 1..Len(cfg) : \A p \in HasGit \cap Below(cfg[i]) : <<i, p>> \in Range(visited)
    /\ WalkRecords \subseteq cache

\* C6 as amended: while the process runs the walker can always take its next
\* step, whatever the channel holds and whether or not a receiver exists; a
\* failed send is only recorded as failed; and a walker that has left the
\* loop has walked every root and added every project.
C6_NeverBlocked ==
    /\ (Running /\ wpc \in {"walk", "send"}) => ENABLED WalkerStep
    /\ (Running /\ wpc = "send") => ENABLED WalkSend
    /\ \A i \in FailedSends : sent[i].origin = "live" /\ ~rxAlive
    /\ (FailedSends # {} /\ exitStatus = "err") => tmuxLog # <<>>
    /\ WalkFinished => AllRootsWalked

\* C6 witness: the walker has left the loop although two of its sends failed
\* on the closed channel.
C6_Witness ==
    /\ WalkFinished
    /\ Cardinality(FailedSends) >= 2
    /\ AllRootsWalked

\* C6 as claimed: the walker is never blocked and, whatever the consumer
\* does, it has finished all roots when the run is over.
C6_WalkerFinishesAllRoots ==
    /\ C6_NeverBlocked
    /\ (pc = "exited" /\ wpc # "unspawned") => WalkFinished

RECURSIVE Delivered(_)
Delivered(n) ==
    IF n = 0 THEN <<>>
    ELSE IF sent[n].ok THEN Append(Delivered(n - 1), sent[n].rec)
    ELSE Delivered(n - 1)

\* C7: once seeding is done the snapshot is the loaded cache, every record
\* of it was delivered to the channel, every seed send precedes every send
\* by discovery, and the items received and queued are the delivered items
\* in the order they were sent.
C7_SeedsFirst ==
    Seeded =>
      /\ Range(seeds) = CacheAtLoad
      /\ \A r \in CacheAtLoad : \E i \in SeedSends : sent[i].rec = r /\ sent[i].ok
      /\ \A i \in SeedSends : \A j \in LiveSends : i < j
      /\ shown \o chan = Delivered(Len(sent))

\* C7 witness: seeds and a discovered item were sent and the selector has
\* received all of them.
C7_Witness ==
    /\ Cardinality(SeedSends) >= 2
    /\ LiveSends # {}
    /\ Len(shown) = Len(sent)

\* C8: when the cache file holds malformed content the process gets no
\* further than Cache::new, with or without the clear flag: it ends with
\* an error, no cache is built, nothing is seeded, no walker is started,
\* nothing is selected and the file keeps its content.
C8_MalformedFails ==
    file0.kind = "text" =>
      /\ pc \in {"open", "exited"}
      /\ pc = "exited" => exitStatus = "err"
      /\ file = file0
      /\ cache = {}
      /\ sent = <<>>
      /\ ~rxAlive
      /\ wpc = "unspawned"
      /\ result = "pending"

\* C8 witness: the clear flag is set, the file is malformed and Cache::new
\* has failed.
C8_Witness ==
    /\ file0.kind = "text"
    /\ clear
    /\ pc = "exited"

C10_RoundTrip ==
    /\ pc \in {"open", "seed"} => (FromStr(file).ok /\ FromStr(file).paths = saved)
    /\ pc = "seed" => cache = saved

\* C10 witness: two or more records were written over unparseable content
\* and read back.
C10_Witness ==
    /\ pc = "seed"
    /\ file0.kind = "text"
    /\ Cardinality(cache) >= 2

\* C11: a failure to write the cache file never ends the run: after a start
\* without a cache file the process does not end before the selector has
\* returned, and when the final save has failed (a warning was logged) the
\* process ends with an error only if session activation returned one.
C11_WriteFailureNotFatal ==
    /\ file0.kind = "missing" => ~(pc = "exited" /\ result = "pending")
    /\ (warned > 0 /\ exitStatus = "err") => tmuxLog # <<>>

\* C12: a session is created only after the existence query said "not
\* found"; after any other failure of the query Tmux::create has returned
\* an error and has invoked nothing else.
C12_OnlyNotFoundMeansMissing ==
    LET ops == Ops(Len(tmuxLog))
    IN  /\ hasOut \in {"other_failure", "spawn_error"} =>
             /\ pc = "exited"
             /\ exitStatus = "err"
             /\ ops = <<"is_running", "has_session">>
        /\ "new_session" \in Range(ops) => hasOut = "not_found"

\* a directory strictly below a project directory that lies under the
\* walked root
BelowProject(root, d) ==
    \E p \in HasGit \cap Below(root) : p # root /\ p # d /\ d \in Below(p)

\* C13: the walk of a root yields no directory twice and never yields a
\* directory that lies below a directory holding the marker, so exactly
\* the topmost marker directories are reported.
C13_ProjectIsLeaf ==
    /\ \A k, l \in 1..Len(visited) : visited[k] = visited[l] => k = l
    /\ \A k \in 1..Len(visited) : ~BelowProject(cfg[visited[k][1]], visited[k][2])

Suffixes(q) == {SubSeq(q, k, Len(q)) : k \in 1..(Len(q) + 1)}

\* q with one leading slash taken off, said without taking anything apart
SlashOff(q, r) == IF \E t \in Suffixes(q) : <<"/">> \o t = q THEN <<"/">> \o r = q ELSE r = q

\* C14: the name computed for a path is the path without the root string
\* in front of it, when the path starts with the root string, and without
\* one slash in front of what is left; a path that does not start with the
\* root loses one leading slash only; the unit test's path gives
\* project/a/b/c.
C14_RelativeName ==
    pc = "named" =>
      LET full == Head(todo)
          dir == cfg[rootIdx]
          r == pending.session_name
      IN  /\ pending.full_path = full
          /\ \A rest \in Suffixes(full) : dir \o rest = full => SlashOff(rest, r)
          /\ (\A rest \in Suffixes(full) : dir \o rest # full) => SlashOff(full, r)
          /\ (full = exWorkProject /\ dir = exRootWork) => r = exProjectABC

\* C14 witness: the name of the unit test's path under the unit test's root
\* has been computed.
C14_Witness ==
    /\ pc = "named"
    /\ cfg[rootIdx] = exRootWork
    /\ Head(todo) = exWorkProject
    /\ pending.session_name = exProjectABC

\* C16 as stated: the root /Users/simon/dev and the project
\* /Users/simon/dev/foo give the name dev/foo.
C16_KeepsRootComponent ==
    (pc = "named" /\ cfg[rootIdx] = exRootDev /\ Head(todo) = exDevFoo) =>
        pending.session_name = exDevSlashFoo

\* C16 amended: the root /Users/simon/dev and the project
\* /Users/simon/dev/foo give the name foo; the last component of the root
\* is not part of the name.
C16_RelativeToRoot ==
    (pc = "named" /\ cfg[rootIdx] = exRootDev /\ Head(todo) = exDevFoo) =>
        pending.session_name = exFoo

\* C16 witness: the name of /Users/simon/dev/foo under /Users/simon/dev has
\* been computed.
C16_Witness ==
    /\ pc = "named"
    /\ cfg[rootIdx] = exRootDev
    /\ Head(todo) = exDevFoo
    /\ pending.full_path = exDevFoo

\* RootDir.prefix of the configuration entry of a root: an Option<String>,
\* as the set of its values; the root /a is configured with the prefix w,
\* the root /a/b with none.  No statement of the program reads the field,
\* so no action mentions it.
prefix(path) == IF path = pA THEN {<<"w">>} ELSE {}

\* the string x occurs in the string n
Occurs(x, n) == \E k \in 1..(Len(n) + 1) : \E t \in Suffixes(SubSeq(n, k, Len(n))) :
                    x \o t = SubSeq(n, k, Len(n))

\* C15: the record the walker has just built for a project under a root
\* configured with a prefix carries a session name in which that prefix
\* occurs.
C15_PrefixApplied ==
    (visited # <<>> /\ HasMarker(visited[Len(visited)][2])) =>
        LET root == cfg[visited[Len(visited)][1]]
            rec == addLog[Len(addLog)].rec
        IN  /\ rec.full_path = visited[Len(visited)][2]
            /\ \A x \in prefix(root) : Occurs(x, rec.session_name)

\* the number of different records seeding and discovery can send in the
\* modelled tree
MostItems == Cardinality(Universe)

\* C17: the channel holds back its producers: the items queued and not yet
\* received are fewer than all the items the producers can send, however
\* far the producers run ahead of the consumer.
C17_BoundedChannel ==
    Len(chan) < MostItems

\* C18: the walk of one root does not wait for the walk of another: while
\* the walk of a root is in progress, the walk of every later root can take
\* its first step.
C18_RootsWalkConcurrently ==
    (Running /\ wpc \in {"walk", "send"} /\ rootIdx >= 1) =>
        \A j \in 1..Len(cfg) : j > rootIdx => ENABLED (WalkerStep /\ rootIdx' = j)

\* C19: when the main flow ends the process after the walker thread was
\* started, and no write has failed, the cache file holds a complete
\* parseable store, and it is the full new set once the walker's write is
\* over.
C19_FileNeverTruncated ==
    (pc = "exited" /\ wpc # "unspawned" /\ warned = 0) =>
        /\ Parses(file)
        /\ wpc = "done" => Deserialize(file) = cache

\* C20: every record discovery adds to the cache or forwards to the channel
\* has a non-empty session name, the record of a root that itself holds the
\* marker included.
C20_NonEmptyNames ==
    /\ \A i \in 1..Len(addLog) : addLog[i].rec.session_name # <<>>
    /\ \A i \in LiveSends : sent[i].rec.session_name # <<>>

TypeOK ==
    /\ pc \in {"name", "named", "write", "open", "seed", "spawn", "select", "activate", "is_running", "session_exists",
               "create_session", "switch_client", "join", "exited"}
    /\ wpc \in {"unspawned", "walk", "send", "drop", "drop_write", "done"}
    /\ cache \subseteq Universe
    /\ exitStatus \in {"none", "ok", "err", "panic"}

====
